---- MODULE Spec2Model ----
(***************************************************************************)
(* The SendHelp interpreter (src/src/index.ts): the parser that builds the *)
(* block tree from tokens, the tree walk getBlockOf, and the cooperative   *)
(* execution engine FakeProcess with its live-task counter and the         *)
(* completion poll of sendhelp().                                          *)
(*                                                                         *)
(* Text is a sequence of one-character strings.  A block of the tree is    *)
(* named by its path from the top-level group (the sequence of member      *)
(* positions, 1-based), so block.parent is the path without its last       *)
(* element and parent.blocks.indexOf(block) is that last element.          *)
(***************************************************************************)
EXTENDS Integers, Sequences, FiniteSets, TLC

\* ------------------------------------------------------------------ bounds
MaxTasks == 6
MaxText == 18

\* -------------------------------------------------------------------- text
TrueText == <<"t", "r", "u", "e">>
FalseText == <<"f", "a", "l", "s", "e">>
PrintName == <<"p", "r", "i", "n", "t">>
NothingName == <<"n", "o", "t", "h", "i", "n", "g">>
EqualsName == <<"e", "q", "u", "a", "l", "s">>
LoopName == <<"l", "o", "o", "p">>
PopName == <<"p", "o", "p">>
DoneName == <<"d", "o", "n", "e">>
InputName == <<"i", "n", "p", "u", "t">>
NL == "\n"

\* String(b) of a boolean
BoolText(b) == IF b THEN TrueText ELSE FalseText

\* array.join('\n')
RECURSIVE join(_)
join(parts) ==
    IF Len(parts) = 0 THEN <<>>
    ELSE IF Len(parts) = 1 THEN parts[1]
    ELSE parts[1] \o <<NL>> \o join(Tail(parts))

\* ------------------------------------------------------- tokens and arrows
TokInstance == 0
TokString == 1
TokArrow == 2
TokBracket == 3

LEFT_SEND == 0
RIGHT_SEND == 1
LEFT_JUMP == 2
RIGHT_JUMP == 3

\* the null of Block.left, Block.right and BlockBranch.inner
NULL == <<>>

RECURSIVE CountOf(_, _)
CountOf(text, chars) ==
    IF Len(text) = 0 THEN 0
    ELSE (IF text[1] \in chars THEN 1 ELSE 0) + CountOf(Tail(text), chars)

parseArrowJumpFromTwoDashes(token) ==
    LET heads == CountOf(token[2], {"<", ">"})
        dashes == CountOf(token[2], {"-"})
    IN  << (IF heads + dashes <= 2 THEN 0 ELSE 1) * 2
             + (IF CountOf(token[2], {"<"}) > 0 THEN 0 ELSE 1),
           heads, dashes >>

\* what parseArrow computes: <<type, heads, dashes>>
parseArrow(token) ==
    LET heads == CountOf(token[2], {"<", ">"})
        dashes == CountOf(token[2], {"-"})
    IN  << (IF heads = 1 THEN 0 ELSE 1) * 2
             + (IF CountOf(token[2], {"<"}) > 0 THEN 0 ELSE 1),
           heads, dashes >>

\* ------------------------------------------------------------------- lexer
\* char.trim().length == 0
isWhitespace(char) == char \in {" ", NL, "\t"}

Glyphs == {"<", ">", "-"}
Digits == {"0", "1", "2", "3", "4", "5", "6", "7", "8", "9"}
Braces == {"{", "}"}

\* text is minX or more x followed by minY or more y, and nothing else
runOf(text, x, minX, y, minY) ==
    \E k \in minX..Len(text) :
        /\ Len(text) - k >= minY
        /\ \A i \in 1..Len(text) : text[i] = (IF i <= k THEN x ELSE y)

\* /^(<+-*|-*>+)$/
arrowRegex(text) == runOf(text, "<", 1, "-", 0) \/ runOf(text, "-", 0, ">", 1)

\* /^(<+-*|-+>*|>+)$/
arrowPrefixRegex(text) ==
    runOf(text, "<", 1, "-", 0) \/ runOf(text, "-", 1, ">", 0) \/ runOf(text, ">", 1, ">", 0)

\* the locals of tokenize; error is set when the default branch throws
NewLexer ==
    [tokens |-> <<>>, token |-> <<TokInstance, <<>> >>, backspace |-> FALSE, error |-> ""]

\* tokenize.append: a glyph run that is no arrow becomes an identifier; the
\* token is pushed when it is a string or not empty
appendToken(st) ==
    LET type == IF st.token[1] = TokArrow /\ ~arrowRegex(st.token[2])
                THEN TokInstance ELSE st.token[1]
    IN  [st EXCEPT !.tokens = IF type = TokString \/ Len(st.token[2]) > 0
                              THEN Append(@, <<type, st.token[2]>>) ELSE @,
                   !.token = <<TokInstance, <<>> >>]

\* the body of the for loop of tokenize on one character; a call of itself
\* is the "continue repeat"
RECURSIVE lexChar(_, _)
lexChar(st, char) ==
    CASE st.token[1] = TokInstance ->
           IF char = "\""
           THEN [appendToken(st) EXCEPT !.token[1] = TokString]
           ELSE IF char \in Glyphs
           THEN lexChar([appendToken(st) EXCEPT !.token[1] = TokArrow], char)
           ELSE IF char \in Braces
           THEN appendToken([appendToken(st) EXCEPT !.token = <<TokBracket, <<char>> >>])
           ELSE IF isWhitespace(char) THEN appendToken(st)
           ELSE [st EXCEPT !.token[2] = Append(@, char)]
      [] st.token[1] = TokString ->
           IF st.backspace
           THEN [st EXCEPT !.token[2] = Append(@, char), !.backspace = FALSE]
           ELSE IF char = "\"" THEN appendToken(st)
           ELSE IF char = "\\" THEN [st EXCEPT !.backspace = TRUE]
           ELSE [st EXCEPT !.token[2] = Append(@, char)]
      [] st.token[1] = TokArrow ->
           IF isWhitespace(char) THEN appendToken(st)
           ELSE IF char \in Digits
           THEN lexChar([st EXCEPT !.token[1] = TokInstance], char)
           ELSE IF char \notin Glyphs THEN lexChar(appendToken(st), char)
           ELSE IF ~arrowPrefixRegex(Append(st.token[2], char))
           THEN lexChar([st EXCEPT !.token[1] = TokInstance], char)
           ELSE [st EXCEPT !.token[2] = Append(@, char)]
      [] OTHER -> [st EXCEPT !.error = "Not implemented."]

\* the for loop of tokenize from character i on
RECURSIVE lexFrom(_, _, _)
lexFrom(st, string, i) ==
    IF i > Len(string) \/ st.error # "" THEN st
    ELSE lexFrom(lexChar(st, string[i]), string, i + 1)

\* what tokenize leaves: the tokens, or the error it threw
Lexed(toks) == [ok |-> TRUE, error |-> "", tokens |-> toks]
LexError(text) == [ok |-> FALSE, error |-> text, tokens |-> <<>>]

tokenizeToTheEnd(string) ==
    LET st == lexFrom(NewLexer, string, 1)
    IN  IF st.error # "" THEN LexError(st.error)
        ELSE Lexed(appendToken(st).tokens)

tokenize(string) ==
    LET st == lexFrom(NewLexer, string, 1)
    IN  IF st.error # "" THEN LexError(st.error)
        ELSE IF st.backspace \/ st.token[1] = TokString
        THEN LexError("Unterminated string")
        ELSE Lexed(appendToken(st).tokens)

\* The array parseArrow returns is a new object at every call.  An Arrow of
\* the tree is <<type, heads, dashes, ref>>: ref names the object, by the
\* position of the token it was made from; two borders hold the same object
\* exactly when they hold the same ref.
newArrow(token, i) == Append(parseArrow(token), i)

\* ------------------------------------------------------------------ blocks
NewBlockBranch ==
    [kind |-> "BlockBranch", name |-> <<>>, arguments |-> <<>>, string |-> <<>>,
     blocks |-> <<>>, inner |-> NULL, left |-> NULL, right |-> NULL]

NewCall(name) ==
    [kind |-> "Call", name |-> name, arguments |-> <<>>, string |-> <<>>,
     blocks |-> <<>>, inner |-> NULL, left |-> NULL, right |-> NULL]

NewStringBlock(string) ==
    [kind |-> "StringBlock", name |-> <<>>, arguments |-> <<>>, string |-> string,
     blocks |-> <<>>, inner |-> NULL, left |-> NULL, right |-> NULL]

\* ------------------------------------------------------------------ parser
\* panic(text): the parse is abandoned with the message
Panic(text) == [ok |-> FALSE, error |-> text, tree |-> NewBlockBranch]

Parsed(tree) == [ok |-> TRUE, error |-> "", tree |-> tree]

appendCopy(tree, block) ==
    LET n == Len(tree.blocks)
        left == IF n >= 1 THEN tree.blocks[n].right ELSE tree.inner
    IN  [tree EXCEPT !.blocks = Append(@, [block EXCEPT !.left =
                          IF left = NULL THEN NULL ELSE [left EXCEPT ![4] = 0]])]

\* parse.append: the new member's left border is the previous member's right
\* border (the same object), or the group's inner arrow for the first member
append(tree, block) ==
    LET n == Len(tree.blocks)
        left == IF n >= 1 THEN tree.blocks[n].right ELSE tree.inner
    IN  [tree EXCEPT !.blocks = Append(@, [block EXCEPT !.left = left])]

\* the scan for the '}' that closes a '{': the position where the nesting
\* level reaches -1, or 0 when the tokens run out
RECURSIVE closeOf(_, _, _)
closeOf(tokens, i, level) ==
    IF i > Len(tokens) THEN 0
    ELSE IF tokens[i][1] # TokBracket THEN closeOf(tokens, i + 1, level)
    ELSE LET l == level + (IF tokens[i][2] = <<"{">> THEN 1 ELSE 0) * 2 - 1
         IN  IF l = -1 THEN i ELSE closeOf(tokens, i + 1, l)

\* arrow?.[0] || d
TypeOr(arrow, d) == IF arrow = NULL \/ arrow[1] = 0 THEN d ELSE arrow[1]

\* the border checks at the end of parse; x / 2 < 0.7 is 10 * x < 14
borderCheck(tree) ==
    LET n == Len(tree.blocks)
    IN  IF n > 0
        THEN IF 10 * TypeOr(tree.blocks[1].left, 2) < 14
                \/ 10 * TypeOr(tree.blocks[n].right, 2) < 14
             THEN Panic("Non-jump arrow at block border")
             ELSE IF TypeOr(tree.blocks[1].left, 0) % 2 = 1
             THEN Panic("Right arrow at left block border")
             ELSE IF TypeOr(tree.blocks[n].right, 1) % 2 = 0
             THEN Panic("Left arrow at right block border")
             ELSE Parsed(tree)
        ELSE Parsed(tree)

\* tokens.slice(begin, i): the arrows of the group parsed from the slice are
\* made from the tokens off positions further on in the whole sequence
RECURSIVE rebase(_, _)
rebase(b, off) ==
    LET mv(a) == IF a = NULL THEN NULL ELSE [a EXCEPT ![4] = @ + off]
    IN  [b EXCEPT !.inner = mv(b.inner), !.left = mv(b.left), !.right = mv(b.right),
                  !.blocks = [k \in 1..Len(b.blocks) |-> rebase(b.blocks[k], off)]]

RECURSIVE parse(_)
RECURSIVE parseFrom(_, _, _)
\* the token loop of parse from position i on, with the group built so far
parseFrom(tokens, i, tree) ==
    IF i > Len(tokens) THEN borderCheck(tree)
    ELSE
    LET token == tokens[i]
        n == Len(tree.blocks)
    IN  CASE token[1] = TokBracket ->
               IF n > 0 /\ tree.blocks[n].right = NULL
               THEN Panic("Token after block")
               ELSE IF token[2] = <<"{">>
               THEN LET j == closeOf(tokens, i + 1, 0)
                    IN  IF j = 0 THEN Panic("Unterminated block")
                        ELSE IF j = i + 1 THEN Panic("Empty block")
                        ELSE LET sub == parse(SubSeq(tokens, i + 1, j - 1))
                             IN  IF ~sub.ok THEN sub
                                 ELSE parseFrom(tokens, j + 1,
                                                append(tree, rebase(sub.tree, i)))
               ELSE Panic("Top-level block cannot be closed with '}'")
          [] token[1] = TokArrow ->
               IF n = 0
               THEN IF tree.inner # NULL
                    THEN Panic("Arrow cannot go after another arrow")
                    ELSE parseFrom(tokens, i + 1,
                                   [tree EXCEPT !.inner = newArrow(token, i)])
               ELSE IF tree.blocks[n].right # NULL
                    THEN Panic("Arrow cannot go after another arrow")
                    ELSE parseFrom(tokens, i + 1,
                                   [tree EXCEPT !.blocks[n].right = newArrow(token, i)])
          [] OTHER ->
               IF n = 0 \/ tree.blocks[n].right # NULL
               THEN parseFrom(tokens, i + 1,
                              append(tree, IF token[1] = TokString
                                           THEN NewStringBlock(token[2])
                                           ELSE NewCall(token[2])))
               ELSE IF tree.blocks[n].kind = "StringBlock"
               THEN parseFrom(tokens, i + 1,
                              [tree EXCEPT !.blocks[n].string = @ \o <<NL>> \o token[2]])
               ELSE IF tree.blocks[n].kind = "Call"
               THEN parseFrom(tokens, i + 1,
                              [tree EXCEPT !.blocks[n].arguments = Append(@, token[2])])
               ELSE Panic("Token after block")

parse(tokens) == parseFrom(tokens, 1, NewBlockBranch)

topLevelArrowsNoInner(file) ==
    \/ file.left # NULL
    \/ file.right # NULL
    \/ (Len(file.blocks) > 0 /\ file.blocks[Len(file.blocks)].right # NULL)

\* the check of sendhelp() on the parsed file before anything runs
topLevelArrows(file) ==
    \/ file.left # NULL
    \/ file.right # NULL
    \/ file.inner # NULL
    \/ (Len(file.blocks) > 0 /\ file.blocks[Len(file.blocks)].right # NULL)

\* --------------------------------------------------------------- tree walk
Root == <<>>
\* getBlockOf returning null (also the undefined of an empty group)
NoBlock == <<0>>
\* getBlockOf throwing: current.parent read on the undefined member of an
\* empty group
Thrown == <<-1>>

Parent(path) == SubSeq(path, 1, Len(path) - 1)
Last(path) == path[Len(path)]

RECURSIVE BlockAt(_, _)
BlockAt(tree, path) ==
    IF Len(path) = 0 THEN tree ELSE BlockAt(tree.blocks[path[1]], Tail(path))

\* the climb out of every group whose edge the walk stands at
RECURSIVE climb(_, _, _)
climb(tree, current, shift) ==
    LET me == Last(current)
        atEdge == IF shift > 0
                  THEN me = Len(BlockAt(tree, Parent(current)).blocks)
                  ELSE me = 1
    IN  IF ~atEdge THEN current
        ELSE IF Parent(current) = Root THEN NoBlock
        ELSE climb(tree, Parent(current), shift)

\* the descent into the first (rightward) or last (leftward) member
RECURSIVE descend(_, _, _)
descend(tree, current, shift) ==
    LET b == BlockAt(tree, current)
    IN  IF b.kind # "BlockBranch" THEN current
        ELSE IF Len(b.blocks) = 0 THEN NoBlock
        ELSE descend(tree, Append(current, IF shift > 0 THEN 1 ELSE Len(b.blocks)), shift)

Abs(x) == IF x < 0 THEN -x ELSE x

RECURSIVE hop(_, _, _, _)
hop(tree, current, shift, i) ==
    IF i >= Abs(shift) THEN current
    ELSE IF current = NoBlock THEN Thrown
    ELSE IF current = Root THEN NoBlock
    ELSE LET c == climb(tree, current, shift)
         IN  IF c = NoBlock THEN NoBlock
             ELSE LET next == Append(Parent(c), Last(c) + (IF shift > 0 THEN 1 ELSE -1))
                  IN  IF Abs(shift) = 1 THEN next
                      ELSE hop(tree, descend(tree, next, shift), shift, i + 1)

getBlockOf(tree, target, shift) ==
    IF target = Root THEN NoBlock ELSE hop(tree, target, shift, 0)

\* ------------------------------------------------------------ begin blocks
inboundSendAnySide(arrow, i) ==
    arrow # NULL /\ arrow[1] \div 2 # 1

\* the some(...) test of beginBlockIndex on one border (i = 0 left, 1 right)
inboundSend(arrow, i) ==
    arrow # NULL /\ arrow[1] % 2 # i /\ arrow[1] \div 2 # 1

beginBlockIndex(branch) ==
    SelectSeq([k \in 1..Len(branch.blocks) |-> k],
              LAMBDA k : ~(\/ inboundSend(branch.blocks[k].left, 0)
                           \/ inboundSend(branch.blocks[k].right, 1)))

\* --------------------------------------------------- Map<BlockBranch, string>
\* a Map is the sequence of its <<key, text>> entries in insertion order
NewMap == <<>>

mapHas(map, k) == \E e \in 1..Len(map) : map[e][1] = k

\* map.get(k) || ''
mapGet(map, k) ==
    IF mapHas(map, k) THEN map[CHOOSE e \in 1..Len(map) : map[e][1] = k][2] ELSE <<>>

mapSet(map, k, v) ==
    IF mapHas(map, k)
    THEN [e \in 1..Len(map) |-> IF map[e][1] = k THEN <<k, v>> ELSE map[e]]
    ELSE Append(map, <<k, v>>)

\* b.forEach((v, k) => a.set(k, (a.get(k) || '') + v)) || a
RECURSIVE mergeInto(_, _)
mergeInto(a, b) ==
    IF Len(b) = 0 THEN a
    ELSE mergeInto(mapSet(a, b[1][1], mapGet(a, b[1][1]) \o b[1][2]), Tail(b))

\* maps.reduce(mergeInto, acc)
RECURSIVE reduceMaps(_, _)
reduceMaps(acc, maps) ==
    IF Len(maps) = 0 THEN acc ELSE reduceMaps(mergeInto(acc, maps[1]), Tail(maps))

\* ------------------------------------------------------ the shared storage
\* position of the last '\n' of a text, 0 when it has none
RECURSIVE lastNL(_, _)
lastNL(text, i) == IF i = 0 THEN 0 ELSE IF text[i] = NL THEN i ELSE lastNL(text, i - 1)

\* storage.split('\n').pop() || ''
popItem(text) == SubSeq(text, lastNL(text, Len(text)) + 1, Len(text))

\* storage.split('\n').slice(0, -1).join('\n')
popRest(text) == SubSeq(text, 1, lastNL(text, Len(text)) - 1)

\* --------------------------------------------------------- a block's effect
printEffectAlwaysOutput(blk, block, fx) ==
    [fx EXCEPT !.output = @ \o join(blk.arguments) \o fx.stream]

printStreamOnly(blk, block, fx) ==
    IF Len(block) >= 2
    THEN [fx EXCEPT !.map = mapSet(@, Parent(block), mapGet(@, Parent(block)) \o fx.stream)]
    ELSE [fx EXCEPT !.output = @ \o fx.stream]

\* case 'print': into the map entry of the enclosing group when that group is
\* nested, else onto the output
printEffect(blk, block, fx) ==
    IF Len(block) >= 2
    THEN [fx EXCEPT !.map = mapSet(@, Parent(block),
                       mapGet(@, Parent(block)) \o join(blk.arguments) \o fx.stream)]
    ELSE [fx EXCEPT !.output = @ \o join(blk.arguments) \o fx.stream]

\* The Call switch and the StringBlock append of FakeProcess.run on the state
\* fx = [stream, map, output, storage]; block is the path of the cursor.  The
\* extension list is empty, so a name outside the switch changes nothing.
\* output is the batch-mode sink (live = false).
blockEffect(blk, block, fx) ==
    IF blk.kind = "StringBlock" THEN [fx EXCEPT !.stream = @ \o blk.string]
    ELSE IF blk.kind # "Call" THEN fx
    ELSE CASE blk.name = NothingName -> [fx EXCEPT !.stream = <<>>]
           [] blk.name = EqualsName ->
                [fx EXCEPT !.stream = BoolText(fx.stream = join(blk.arguments))]
           [] blk.name = LoopName ->
                [fx EXCEPT !.storage = @ \o <<NL>> \o join(<<fx.stream>> \o blk.arguments)]
           [] blk.name = PopName ->
                [fx EXCEPT !.stream = popItem(fx.storage), !.storage = popRest(fx.storage)]
           [] blk.name = DoneName ->
                [fx EXCEPT !.stream = BoolText(Len(fx.storage) = 0)]
           [] blk.name = PrintName -> printEffect(blk, block, fx)
           [] OTHER -> fx

\* ------------------------------------------------------ resolving the move
pointsLeft(arrow) == arrow # NULL /\ arrow[1] % 2 = 0
pointsRight(arrow) == arrow # NULL /\ arrow[1] % 2 = 1

\* a block with an outward edge: left border pointing left or right border
\* pointing right
outward(b) == pointsLeft(b.left) \/ pointsRight(b.right)

RECURSIVE walkUpUnscoped(_, _, _)
walkUpUnscoped(tree, block, endingBlock) ==
    IF block = Root
    THEN [found |-> FALSE, block |-> block]
    ELSE IF outward(BlockAt(tree, Parent(block)))
    THEN [found |-> TRUE, block |-> Parent(block)]
    ELSE walkUpUnscoped(tree, Parent(block), endingBlock)

\* the walk up the ancestors: stops (found) at the first ancestor with an
\* outward edge, or (not found) below endingBlock or at the top-level group;
\* block is the cursor this.block where the walk stopped
RECURSIVE walkUp(_, _, _)
walkUp(tree, block, endingBlock) ==
    IF block = Root \/ endingBlock = Parent(block)
    THEN [found |-> FALSE, block |-> block]
    ELSE IF outward(BlockAt(tree, Parent(block)))
    THEN [found |-> TRUE, block |-> Parent(block)]
    ELSE walkUp(tree, Parent(block), endingBlock)

\* what one resolution decides: outcome "end" (return map), "move" (new
\* cursor, then the timer), "fork" (await the two of() calls) or "throw";
\* spawn lists the processes it starts; rule, from and shift record the
\* branch taken, the block whose borders were read and the shift walked
Res(outcome, block, stream, spawn, rule, from, shift) ==
    [outcome |-> outcome, block |-> block, stream |-> stream, spawn |-> spawn,
     rule |-> rule, from |-> from, shift |-> shift]

NoRes == Res("none", Root, <<>>, <<>>, "none", Root, 0)

\* const block = getBlockOf(this.block, shift); if (block) this.block = block;
\* else return map
moveTo(tree, from, shift, stream, spawn, rule) ==
    LET target == getBlockOf(tree, from, shift)
    IN  IF target = Thrown THEN Res("throw", from, stream, <<>>, rule, from, shift)
        ELSE IF target = NoBlock THEN Res("end", from, stream, spawn, rule, from, shift)
        ELSE Res("move", target, stream, spawn, rule, from, shift)

\* unequal weights on the cursor: m times the magnitude of the edge on side m
chooseAtCursor(left, right, stream) ==
    LET m == (IF left[3] > right[3] THEN -1 ELSE 1)
                * (IF stream = TrueText THEN 1 ELSE -1)
    IN  m * (IF m = -1 THEN left[2] ELSE right[2])

chooseAtAncestorSwapped(left, right, stream) ==
    IF (IF left[3] > right[3] THEN -1 ELSE 1)
          * (IF stream = TrueText THEN 1 ELSE -1) > 0
    THEN -left[2]
    ELSE right[2]

\* unequal weights on an ancestor: points = [[-left[1], left[2]], [right[1], right[2]]]
chooseAtAncestor(left, right, stream) ==
    IF (IF left[3] > right[3] THEN -1 ELSE 1)
          * (IF stream = TrueText THEN 1 ELSE -1) > 0
    THEN right[2]
    ELSE -left[2]

\* desyncOf(target, shift, stream): a process with no endingBlock on the block
\* the walk reaches, none when it reaches no block
desyncOf(tree, target, shift, stream) ==
    LET block == getBlockOf(tree, target, shift)
    IN  IF block \in {NoBlock, Thrown} THEN <<>>
        ELSE << [kind |-> "desync", block |-> block, stream |-> stream,
                 endingBlock |-> NoBlock, shift |-> shift] >>

chooseSpawnSameMagnitude(tree, from, left, right, stream) ==
    IF left[2] = right[2]
    THEN desyncOf(tree, from,
                  IF chooseAtCursor(left, right, stream) < 0 THEN right[2] ELSE -left[2],
                  stream)
    ELSE <<>>

\* the processes started on two outward edges of unequal weight: the code
\* calls neither of() nor desyncOf() there
chooseSpawn(tree, from, left, right, stream) == <<>>

\* of(target, shift): a process on the block the walk reaches, ending at
\* that block's parent; block = NoBlock stands for the empty Map it returns
\* when the walk reaches no block
of(tree, target, shift) ==
    LET block == getBlockOf(tree, target, shift)
    IN  [kind |-> "fork", block |-> block, stream |-> <<>>,
         endingBlock |-> IF block \in {NoBlock, Thrown} THEN NoBlock ELSE Parent(block),
         shift |-> shift]

\* the shifts of the two of() calls of a fork: i * arrow[2] with i = 1 for
\* the left arrow and i = -1 for the right arrow
forkShifts(left, right) == << 1 * left[3], -1 * right[3] >>

\* the shift walked from an ancestor with one outward edge: points[0][1]
singleAtAncestor(arrow) == arrow[3]

\* the shift walked from the cursor with one outward edge: m * arrow[1]
singleAtCursor(left, right) ==
    LET m == IF pointsLeft(left) THEN -1 ELSE 1
    IN  m * (IF m = -1 THEN left[2] ELSE right[2])

\* the move from an ancestor that exposes an outward edge (switch on points.length)
resolveAncestor(tree, anc, stream, map) ==
    LET b == BlockAt(tree, anc)
        st == stream \o mapGet(map, anc)
    IN  IF pointsLeft(b.left) /\ pointsRight(b.right)
        THEN IF b.left[3] # b.right[3]
             THEN moveTo(tree, anc, chooseAtAncestor(b.left, b.right, st), st,
                         chooseSpawn(tree, anc, b.left, b.right, st), "choose")
             ELSE moveTo(tree, anc, b.left[3], st,
                         desyncOf(tree, anc, b.left[3], st), "desync")
        ELSE moveTo(tree, anc,
                    singleAtAncestor(IF pointsLeft(b.left) THEN b.left ELSE b.right),
                    st, <<>>, "single")

\* the move resolution after the block's effect
resolve(tree, block, endingBlock, stream, map) ==
    LET b == BlockAt(tree, block)
    IN  IF ~pointsLeft(b.left) /\ ~pointsRight(b.right)
        THEN LET up == walkUp(tree, block, endingBlock)
             IN  IF ~up.found
                 THEN Res("end", up.block, stream, <<>>, "none", up.block, 0)
                 ELSE resolveAncestor(tree, up.block, stream, map)
        ELSE IF pointsLeft(b.left) /\ pointsRight(b.right)
        THEN IF b.left[3] = b.right[3]
             THEN LET sh == forkShifts(b.left, b.right)
                      kids == << of(tree, block, sh[1]), of(tree, block, sh[2]) >>
                  IN  Res(IF \E k \in 1..2 : kids[k].block = Thrown
                          THEN "throw" ELSE "fork",
                          block, stream,
                          SelectSeq(kids, LAMBDA k : k.block # Thrown),
                          "fork", block, 0)
             ELSE moveTo(tree, block, chooseAtCursor(b.left, b.right, stream), stream,
                         chooseSpawn(tree, block, b.left, b.right, stream), "choose")
        ELSE moveTo(tree, block, singleAtCursor(b.left, b.right), stream, <<>>, "single")

\* ---------------------------------------------------------------- programs
Ident(name) == <<TokInstance, name>>
Str(text) == <<TokString, text>>
Arrow(glyphs) == <<TokArrow, glyphs>>
Open == <<TokBracket, <<"{">> >>
Close == <<TokBracket, <<"}">> >>

\* the token sequences the engine is run on
Programs ==
    << \* a <- b <<- y ->> c -> d
       << Ident(<<"a">>), Arrow(<<"<", "-">>), Ident(<<"b">>), Arrow(<<"<", "<", "-">>),
          Ident(<<"y">>), Arrow(<<"-", ">", ">">>), Ident(<<"c">>), Arrow(<<"-", ">">>),
          Ident(<<"d">>) >>,
       \* { print "l" <- f -> print "r" } -> print
       << Open, Ident(PrintName), Str(<<"l">>), Arrow(<<"<", "-">>), Ident(<<"f">>),
          Arrow(<<"-", ">">>), Ident(PrintName), Str(<<"r">>), Close,
          Arrow(<<"-", ">">>), Ident(PrintName) >>,
       \* a <-- "true" -> b
       << Ident(<<"a">>), Arrow(<<"<", "-", "-">>), Str(TrueText), Arrow(<<"-", ">">>),
          Ident(<<"b">>) >>,
       \* a <- "x" -->> b -> c
       << Ident(<<"a">>), Arrow(<<"<", "-">>), Str(<<"x">>), Arrow(<<"-", "-", ">", ">">>),
          Ident(<<"b">>), Arrow(<<"-", ">">>), Ident(<<"c">>) >>,
       \* s ->> q <-- { "true" } -> b
       << Ident(<<"s">>), Arrow(<<"-", ">", ">">>), Ident(<<"q">>), Arrow(<<"<", "-", "-">>),
          Open, Str(TrueText), Close, Arrow(<<"-", ">">>), Ident(<<"b">>) >>,
       \* "h" ->> q -> { print } ->>> print
       << Str(<<"h">>), Arrow(<<"-", ">", ">">>), Ident(<<"q">>), Arrow(<<"-", ">">>),
          Open, Ident(PrintName), Close, Arrow(<<"-", ">", ">", ">">>), Ident(PrintName) >>,
       \* s ->> q <- { a } -> b
       << Ident(<<"s">>), Arrow(<<"-", ">", ">">>), Ident(<<"q">>), Arrow(<<"<", "-">>),
          Open, Ident(<<"a">>), Close, Arrow(<<"-", ">">>), Ident(<<"b">>) >>,
       \* { a ->> } -> b -> c
       << Open, Ident(<<"a">>), Arrow(<<"-", ">", ">">>), Close, Arrow(<<"-", ">">>),
          Ident(<<"b">>), Arrow(<<"-", ">">>), Ident(<<"c">>) >>,
       \* s ->>> { -> } -> b
       << Ident(<<"s">>), Arrow(<<"-", ">", ">", ">">>), Open, Arrow(<<"-", ">">>), Close,
          Arrow(<<"-", ">">>), Ident(<<"b">>) >>,
       \* "a" -> loop -> pop -> done -> print
       << Str(<<"a">>), Arrow(<<"-", ">">>), Ident(LoopName), Arrow(<<"-", ">">>),
          Ident(PopName), Arrow(<<"-", ">">>), Ident(DoneName), Arrow(<<"-", ">">>),
          Ident(PrintName) >>,
       \* { print "a" <<- print "b" } -> print
       << Open, Ident(PrintName), Str(<<"a">>), Arrow(<<"<", "<", "-">>), Ident(PrintName),
          Str(<<"b">>), Close, Arrow(<<"-", ">">>), Ident(PrintName) >>,
       \* { a ->> } <- x <- y
       << Open, Ident(<<"a">>), Arrow(<<"-", ">", ">">>), Close, Arrow(<<"<", "-">>),
          Ident(<<"x">>), Arrow(<<"<", "-">>), Ident(<<"y">>) >>,
       \* a ->
       << Ident(<<"a">>), Arrow(<<"-", ">">>) >>,
       \* { a
       << Open, Ident(<<"a">>) >>,
       \* "a" "b" -> loop -> pop -> done -> print
       << Str(<<"a">>), Str(<<"b">>), Arrow(<<"-", ">">>), Ident(LoopName),
          Arrow(<<"-", ">">>), Ident(PopName), Arrow(<<"-", ">">>), Ident(DoneName),
          Arrow(<<"-", ">">>), Ident(PrintName) >>,
       \* "a" -> loop x -> pop -> done -> pop -> done
       << Str(<<"a">>), Arrow(<<"-", ">">>), Ident(LoopName), Ident(<<"x">>),
          Arrow(<<"-", ">">>), Ident(PopName), Arrow(<<"-", ">">>), Ident(DoneName),
          Arrow(<<"-", ">">>), Ident(PopName), Arrow(<<"-", ">">>), Ident(DoneName) >>,
       \* "a" -> loop -> pop ->>> "b" -> loop -> pop
       << Str(<<"a">>), Arrow(<<"-", ">">>), Ident(LoopName), Arrow(<<"-", ">">>),
          Ident(PopName), Arrow(<<"-", ">", ">", ">">>), Str(<<"b">>),
          Arrow(<<"-", ">">>), Ident(LoopName), Arrow(<<"-", ">">>), Ident(PopName) >>,
       \* input ->> input -> print
       << Ident(InputName), Arrow(<<"-", ">", ">">>), Ident(InputName),
          Arrow(<<"-", ">">>), Ident(PrintName) >> >>

\* parse(tokenize(code)) of each program
Files == [c \in 1..Len(Programs) |-> parse(Programs[c])]

\* ------------------------------------------------------------------- state
VARIABLES
    code,      \* the program run: a position of Programs
    phase,     \* "text", "tokens", "load" (parse returned or threw), "panic" (sendhelp
               \* threw), "running", "done" (resolved)
    tasks,     \* the FakeProcess objects ever constructed, in construction order
    running,   \* FakeProcess.running
    storage,   \* FakeProcess.storage
    output,    \* the output text of batch mode
    sync,      \* the run() calls on the call stack whose first iteration is due
    last,      \* what the last action did
    tokens,    \* the token sequence handed to parse
    parsed,    \* what parse returned for tokens
    source,    \* the source text handed to tokenize
    lexed,     \* what tokenize returned for source
    items,     \* history: the texts pushed by loop and not yet popped, oldest first
    input      \* the state of the input facility (requestInput and its reader)

vars == <<code, phase, tasks, running, storage, output, sync, last, tokens, parsed,
          source, lexed, items, input>>

File == parsed.tree

\* requestInput outside a browser: inputRequests and rl are its closure's
\* variables.  rl is 0 for null, else the number of the readline interface
\* (made counts the interfaces mkint has created); asked holds the questions
\* handed to rl.question whose callback has not been called, each with the
\* process that awaits the answer and the interface it was asked on.
NewInput == [inputRequests |-> <<>>, rl |-> 0, made |-> 0, asked |-> <<>>]

\* if (!rl) rl = mkint()
mkint(io) == IF io.rl = 0 THEN [io EXCEPT !.rl = io.made + 1, !.made = @ + 1] ELSE io

\* loop(): the first request is taken off the queue and asked
loop(io) ==
    LET io1 == mkint(io)
        request == Head(io1.inputRequests)
    IN  [io1 EXCEPT !.inputRequests = Tail(@),
                    !.asked = Append(@, [task |-> request.task, text |-> request.text,
                                          rl |-> io1.rl])]

\* requestInput(text) called by process t, up to the promise it returns
requestInput(io, t, string) ==
    LET io1 == mkint(io)
        io2 == [io1 EXCEPT !.inputRequests = Append(@, [task |-> t, text |-> string])]
    IN  IF Len(io2.inputRequests) = 1 THEN loop(io2) ELSE io2

\* the callback of rl.question for the question at position k of asked
\* (request[1](str) resolves the awaiting process, see Answer)
answered(io, k) ==
    LET io1 == [io EXCEPT !.asked = SubSeq(@, 1, k - 1) \o SubSeq(@, k + 1, Len(@))]
    IN  IF Len(io1.inputRequests) > 0 THEN loop(io1) ELSE [io1 EXCEPT !.rl = 0]

\* new FakeProcess(block) as run() leaves it: running was incremented
NewProcess(kind, block, endingBlock, stream, parent, shift) ==
    [kind |-> kind, block |-> block, endingBlock |-> endingBlock, stream |-> stream,
     map |-> NewMap, pc |-> "run", parent |-> parent, children |-> <<>>,
     shift |-> shift]

\* the orders a shuffle can leave n begin blocks in
Orders(n) == {p \in [1..n -> 1..n] : \A i, j \in 1..n : p[i] = p[j] => i = j}

TextsFit(fx) ==
    /\ Len(fx.stream) <= MaxText
    /\ Len(fx.output) <= MaxText
    /\ Len(fx.storage) <= MaxText
    /\ \A e \in 1..Len(fx.map) : Len(fx.map[e][2]) <= MaxText

\* last.prev is the iteration right before the last one, when both were
\* iterations; last.items is items before the last action
NoPrev ==
    [act |-> "none", task |-> 0, block |-> Root,
     pre |-> [stream |-> <<>>, map |-> NewMap, output |-> <<>>, storage |-> <<>>]]

Step0 ==
    [act |-> "none", task |-> 0, block |-> Root,
     pre |-> [stream |-> <<>>, map |-> NewMap, output |-> <<>>, storage |-> <<>>],
     fx |-> [stream |-> <<>>, map |-> NewMap, output |-> <<>>, storage |-> <<>>],
     res |-> NoRes, started |-> <<>>, awaited |-> <<>>, prev |-> NoPrev,
     items |-> <<>>]

Init ==
    /\ code \in 1..Len(Programs)
    /\ phase = "load"
    /\ tasks = <<>>
    /\ running = 0
    /\ storage = <<>>
    /\ output = <<>>
    /\ sync = <<>>
    /\ last = Step0
    /\ tokens = Programs[code]
    /\ parsed = Files[code]
    /\ source = <<>>
    /\ lexed = Lexed(tokens)
    /\ items = <<>>
    /\ input = NewInput

\* sendhelp(): parse throws, or the top-level arrow check does
Panics ==
    /\ phase = "load"
    /\ ~parsed.ok \/ topLevelArrows(parsed.tree)
    /\ phase' = "panic"
    /\ last' = [Step0 EXCEPT !.act = "panic"]
    /\ UNCHANGED <<code, tasks, running, storage, output, sync, tokens, parsed, source, lexed, items, input>>

runningAfterRunsOnce(r, n) == r + (IF n > 0 THEN 1 ELSE 0)

\* the counter after run() was called on n new processes
runningAfterRuns(r, n) == r + n

\* sendhelp(): the begin blocks of the file are shuffled and run
Start ==
    /\ phase = "load"
    /\ parsed.ok /\ ~topLevelArrows(parsed.tree)
    /\ LET begin == beginBlockIndex(File)
           n == Len(begin)
       IN  /\ n <= MaxTasks
           /\ \E order \in Orders(n) :
                /\ tasks' = [k \in 1..n |->
                               NewProcess("begin", <<begin[order[k]]>>, Root, <<>>, 0, 0)]
                /\ running' = runningAfterRuns(running, n)
                /\ sync' = [k \in 1..n |-> k]
                /\ last' = [Step0 EXCEPT !.act = "start", !.started = [k \in 1..n |-> k]]
    /\ phase' = "running"
    /\ UNCHANGED <<code, storage, output, tokens, parsed, source, lexed, items, input>>

\* the processes whose awaited children have all returned: their
\* continuations are microtasks, which run before any timer
Returned(ids) == \A k \in 1..Len(ids) : ids[k] = 0 \/ tasks[ids[k]].pc = "ended"

MicroPending ==
    \E t \in 1..Len(tasks) : tasks[t].pc \in {"group", "fork"} /\ Returned(tasks[t].children)

\* process t may run an iteration now: it is next on the call stack, or the
\* stack and the microtask queue are empty and its timer fires
MayRun(t) ==
    /\ phase = "running"
    /\ t \in 1..Len(tasks)
    /\ IF sync # <<>> THEN t = Head(sync) ELSE ~MicroPending

RestOfSync(t) == IF sync # <<>> /\ Head(sync) = t THEN Tail(sync) ELSE sync

\* the ids given to the spawn requests reqs: consecutive for the requests
\* with a block, 0 for an of() that returned the empty Map
RECURSIVE idsOf(_, _)
idsOf(reqs, next) ==
    IF Len(reqs) = 0 THEN <<>>
    ELSE IF reqs[1].block = NoBlock THEN <<0>> \o idsOf(Tail(reqs), next)
    ELSE <<next>> \o idsOf(Tail(reqs), next + 1)

\* the counter after wrapped() returned
runningAfterReturn(r) == r - 1

\* history: the pushed texts after an iteration on blk with the stream it had
itemsAfter(blk, stream, stack) ==
    IF blk.kind = "Call" /\ blk.name = LoopName THEN stack \o <<stream>> \o blk.arguments
    ELSE IF blk.kind = "Call" /\ blk.name = PopName
    THEN SubSeq(stack, 1, Len(stack) - 1)
    ELSE stack

\* the resolved move res applied to process t, with the processes it starts
Land(t, act, pre, fx, res) ==
    LET me == tasks[t]
        reqs == SelectSeq(res.spawn, LAMBDA r : r.block # NoBlock)
        ids == idsOf(res.spawn, Len(tasks) + 1)
        born == [k \in 1..Len(reqs) |->
                   NewProcess(reqs[k].kind, reqs[k].block, reqs[k].endingBlock,
                              reqs[k].stream, t, reqs[k].shift)]
        pc == CASE res.outcome = "end" -> "ended"
                [] res.outcome = "move" -> "run"
                [] res.outcome = "fork" -> "fork"
                [] OTHER -> "thrown"
    IN  /\ TextsFit([fx EXCEPT !.stream = res.stream])
        /\ Len(tasks) + Len(reqs) <= MaxTasks
        /\ tasks' = [tasks EXCEPT ![t] =
                        [me EXCEPT !.block = res.block, !.stream = res.stream,
                                   !.map = fx.map, !.pc = pc,
                                   !.children = IF res.outcome = "fork" THEN ids ELSE <<>>]]
                    \o born
        /\ running' = IF res.outcome = "end"
                      THEN runningAfterReturn(runningAfterRuns(running, Len(reqs)))
                      ELSE runningAfterRuns(running, Len(reqs))
        /\ storage' = fx.storage
        /\ output' = fx.output
        /\ sync' = SelectSeq(ids, LAMBDA i : i # 0) \o RestOfSync(t)
        /\ items' = itemsAfter(BlockAt(File, me.block), pre.stream, items)
        /\ last' = [act |-> act, task |-> t, block |-> me.block, pre |-> pre, fx |-> fx,
                    res |-> res, started |-> SelectSeq(ids, LAMBDA i : i # 0),
                    awaited |-> me.children,
                    prev |-> [act |-> last.act, task |-> last.task,
                              block |-> last.block, pre |-> last.pre],
                    items |-> items]

\* the rest of an iteration of process t once the block's effect fx is known:
\* the move is resolved and applied
Finish(t, act, pre, fx) ==
    \E res \in {resolve(File, tasks[t].block, tasks[t].endingBlock, fx.stream, fx.map)} :
        Land(t, act, pre, fx, res)

\* the cursor of process t is a call of input
OnInput(t) ==
    /\ BlockAt(File, tasks[t].block).kind = "Call"
    /\ BlockAt(File, tasks[t].block).name = InputName

\* one iteration of the loop of run() on a Call or StringBlock cursor
Step(t) ==
    /\ MayRun(t)
    /\ tasks[t].pc = "run"
    /\ BlockAt(File, tasks[t].block).kind # "BlockBranch"
    /\ ~OnInput(t)
    /\ LET me == tasks[t]
           pre == [stream |-> me.stream, map |-> me.map, output |-> output,
                   storage |-> storage]
       IN  \E fx \in {blockEffect(BlockAt(File, me.block), me.block, pre)} :
               Finish(t, "step", pre, fx)
    /\ UNCHANGED <<code, phase, tokens, parsed, source, lexed, input>>

\* an iteration on a call of input up to its await: the request is made
Ask(t) ==
    /\ MayRun(t)
    /\ tasks[t].pc = "run"
    /\ OnInput(t)
    /\ LET me == tasks[t]
       IN  /\ input' = requestInput(input, t,
                                     me.stream \o join(BlockAt(File, me.block).arguments))
           /\ tasks' = [tasks EXCEPT ![t] = [me EXCEPT !.pc = "input"]]
           /\ sync' = RestOfSync(t)
           /\ last' = [Step0 EXCEPT !.act = "ask", !.task = t, !.block = me.block]
    /\ UNCHANGED <<code, phase, running, storage, output, tokens, parsed, source, lexed,
                   items>>

\* the lines a user enters
Lines == { <<"x">>, <<"y">> }

\* a line is entered while the questions of asked are outstanding on the open
\* interface: the callback of one of them is called with it (which one, when
\* there are several, is up to readline), and the process awaiting it goes on
\* with the line as its stream
Answer(k, line) ==
    /\ phase = "running"
    /\ sync = <<>>
    /\ ~MicroPending
    /\ k \in 1..Len(input.asked)
    /\ input.asked[k].rl = input.rl
    /\ input' = answered(input, k)
    /\ LET t == input.asked[k].task
           pre == [stream |-> tasks[t].stream, map |-> tasks[t].map, output |-> output,
                   storage |-> storage]
       IN  Finish(t, "answer", pre, [pre EXCEPT !.stream = line])
    /\ UNCHANGED <<code, phase, tokens, parsed, source, lexed>>

\* an iteration on a BlockBranch cursor up to its await: a process is run on
\* every begin block
Enter(t) ==
    /\ MayRun(t)
    /\ tasks[t].pc = "run"
    /\ BlockAt(File, tasks[t].block).kind = "BlockBranch"
    /\ LET me == tasks[t]
           begin == beginBlockIndex(BlockAt(File, me.block))
           n == Len(begin)
           ids == [k \in 1..n |-> Len(tasks) + k]
       IN  /\ Len(tasks) + n <= MaxTasks
           /\ tasks' = [tasks EXCEPT ![t] = [me EXCEPT !.pc = "group", !.children = ids]]
                       \o [k \in 1..n |->
                             NewProcess("child", Append(me.block, begin[k]), me.block,
                                        <<>>, t, 0)]
           /\ running' = runningAfterRuns(running, n)
           /\ sync' = ids \o RestOfSync(t)
           /\ last' = [Step0 EXCEPT !.act = "enter", !.task = t, !.block = me.block,
                                    !.started = ids]
    /\ UNCHANGED <<code, phase, storage, output, tokens, parsed, source, lexed, items, input>>

\* the maps the awaited children returned, in the order of the awaited array
mapsOf(ids) == [k \in 1..Len(ids) |-> IF ids[k] = 0 THEN NewMap ELSE tasks[ids[k]].map]

RECURSIVE Reverse(_)
Reverse(seq) == IF Len(seq) = 0 THEN <<>> ELSE Append(Reverse(Tail(seq)), seq[1])

streamAfterGroupReversed(stream, block, maps) ==
    stream \o mapGet(reduceMaps(NewMap, Reverse(maps)), block)

\* the stream after the children of the group step returned
streamAfterGroup(stream, block, maps) ==
    stream \o mapGet(reduceMaps(NewMap, maps), block)

\* the iteration on a BlockBranch cursor after its await
Resume(t) ==
    /\ phase = "running"
    /\ sync = <<>>
    /\ t \in 1..Len(tasks)
    /\ tasks[t].pc = "group"
    /\ Returned(tasks[t].children)
    /\ LET me == tasks[t]
           pre == [stream |-> me.stream, map |-> me.map, output |-> output,
                   storage |-> storage]
       IN  Finish(t, "resume", pre,
                  [pre EXCEPT !.stream =
                      streamAfterGroup(me.stream, me.block, mapsOf(me.children))])
    /\ UNCHANGED <<code, phase, tokens, parsed, source, lexed, input>>

\* the map a fork returns: the two children's maps reduced into the first,
\* then added to the process's own map
mapAfterFork(map, maps) == mergeInto(map, reduceMaps(maps[1], Tail(maps)))

\* the fork after both of() calls returned: the process returns the merged map
Join(t) ==
    /\ phase = "running"
    /\ sync = <<>>
    /\ t \in 1..Len(tasks)
    /\ tasks[t].pc = "fork"
    /\ Returned(tasks[t].children)
    /\ LET me == tasks[t]
           map == mapAfterFork(me.map, mapsOf(me.children))
       IN  /\ \A e \in 1..Len(map) : Len(map[e][2]) <= MaxText
           /\ tasks' = [tasks EXCEPT ![t] = [me EXCEPT !.map = map, !.pc = "ended"]]
           /\ last' = [Step0 EXCEPT !.act = "join", !.task = t, !.block = me.block,
                                    !.pre.map = me.map, !.fx.map = map,
                                    !.awaited = me.children]
    /\ running' = runningAfterReturn(running)
    /\ UNCHANGED <<code, phase, storage, output, sync, tokens, parsed, source, lexed, items, input>>

\* the setInterval callback of sendhelp() finding FakeProcess.running == 0
Poll ==
    /\ phase = "running"
    /\ sync = <<>>
    /\ ~MicroPending
    /\ running = 0
    /\ phase' = "done"
    /\ last' = [Step0 EXCEPT !.act = "poll"]
    /\ UNCHANGED <<code, tasks, running, storage, output, sync, tokens, parsed, source, lexed, items, input>>

Next ==
    \/ Panics
    \/ Start
    \/ \E t \in 1..MaxTasks : Step(t)
    \/ \E t \in 1..MaxTasks : Enter(t)
    \/ \E t \in 1..MaxTasks : Resume(t)
    \/ \E t \in 1..MaxTasks : Join(t)
    \/ \E t \in 1..MaxTasks : Ask(t)
    \/ \E k \in 1..MaxTasks, line \in Lines : Answer(k, line)
    \/ Poll

Spec == Init /\ [][Next]_vars

\* The event loop runs every callback that is due: a run() on the call stack,
\* a continuation whose awaited promises are settled, a timer of setTimeout()
\* and the interval of sendhelp().  A line of input is up to the user.
Scheduled ==
    \/ Panics
    \/ Start
    \/ Poll
    \/ \E t \in 1..MaxTasks : Step(t) \/ Enter(t) \/ Resume(t) \/ Join(t) \/ Ask(t)

Fairness == WF_vars(Scheduled)

SpecFair == Spec /\ Fairness

\* ------------------------------------- the parser and the driver on any tokens
MaxTokens == 5

\* the tokens the sequences handed to parse are made of: the two braces, an
\* identifier, a string and the four kinds of arrow
Alphabet ==
    { Open, Close, Ident(<<"a">>), Str(<<"s">>),
      Arrow(<<"<">>), Arrow(<<">">>), Arrow(<<"<", "<">>), Arrow(<<">", ">">>) }

InitParse ==
    /\ code = 1
    /\ phase = "tokens"
    /\ tasks = <<>>
    /\ running = 0
    /\ storage = <<>>
    /\ output = <<>>
    /\ sync = <<>>
    /\ last = Step0
    /\ tokens = <<>>
    /\ parsed = Panic("")
    /\ source = <<>>
    /\ lexed = Lexed(<<>>)
    /\ items = <<>>
    /\ input = NewInput

\* one more token of the input
Feed(token) ==
    /\ phase = "tokens"
    /\ Len(tokens) < MaxTokens
    /\ tokens' = Append(tokens, token)
    /\ UNCHANGED <<code, phase, tasks, running, storage, output, sync, last, parsed, source, lexed, items, input>>

\* parse(tokens)
Parse ==
    /\ phase = "tokens"
    /\ parsed' = parse(tokens)
    /\ phase' = "load"
    /\ UNCHANGED <<code, tasks, running, storage, output, sync, last, tokens, source, lexed, items, input>>

NextParse ==
    \/ \E token \in Alphabet : Feed(token)
    \/ Parse
    \/ Panics
    \/ Start

SpecParse == InitParse /\ [][NextParse]_vars

\* --------------------------------------------- the tree walk on any tree shape
MaxShape == 7

\* the tokens that decide the shape of a tree: the braces, a member and an
\* arrow that may stand between members and at a border
Shapes == { Open, Close, Ident(<<"a">>), Arrow(<<">", ">">>) }

\* the shifts walked: one to three steps to either side
Shifts == {-3, -2, -1, 1, 2, 3}

\* the paths of the blocks of the tree under b, b (at path at) included
RECURSIVE Paths(_, _)
Paths(b, at) ==
    {at} \cup UNION { Paths(b.blocks[k], Append(at, k)) : k \in 1..Len(b.blocks) }

\* one more token of the input
FeedShape(token) ==
    /\ phase = "tokens"
    /\ Len(tokens) < MaxShape
    /\ tokens' = Append(tokens, token)
    /\ UNCHANGED <<code, phase, tasks, running, storage, output, sync, last, parsed, source, lexed, items, input>>

\* a call getBlockOf(target, shift) on a block of the file the driver accepted;
\* last.res holds the target, the shift and what the call returned
Walk(target, shift) ==
    /\ phase = "load"
    /\ parsed.ok /\ ~topLevelArrows(parsed.tree)
    /\ last' = [Step0 EXCEPT !.act = "walk", !.block = target,
                             !.res = Res("walk", getBlockOf(File, target, shift), <<>>, <<>>,
                                         "walk", target, shift)]
    /\ UNCHANGED <<code, phase, tasks, running, storage, output, sync, tokens, parsed, source, lexed, items, input>>

NextWalk ==
    \/ \E token \in Shapes : FeedShape(token)
    \/ Parse
    \/ \E shift \in Shifts : \E target \in Paths(File, Root) : Walk(target, shift)

SpecWalk == InitParse /\ [][NextWalk]_vars

\* ------------------------------------------- programs without arrows and braces
MaxWords == 3

\* the tokens of such a program: strings and the names of built-in calls
Words ==
    { Str(<<"a">>), Str(<<"b">>), Ident(PrintName), Ident(LoopName), Ident(PopName),
      Ident(DoneName) }

\* one more token of the input
FeedWord(token) ==
    /\ phase = "tokens"
    /\ Len(tokens) < MaxWords
    /\ tokens' = Append(tokens, token)
    /\ UNCHANGED <<code, phase, tasks, running, storage, output, sync, last, parsed, source, lexed, items, input>>

\* sendhelp() on these programs: parse does not throw on them and leaves no
\* arrow and no group, so the driver starts the begin blocks and processes
\* iterate on calls and strings only
NextSeq ==
    \/ \E token \in Words : FeedWord(token)
    \/ Parse
    \/ Start
    \/ \E t \in 1..MaxTasks : Step(t)
    \/ Poll

SpecSeq == InitParse /\ [][NextSeq]_vars

\* ----------------------------- the lexer, the parser and the driver on any text
MaxChars == 4

\* the characters the texts handed to tokenize are made of
Chars == {"<", "-", ">", "\"", "\\", " ", "a", "1", "{", "}"}

InitLex ==
    /\ code = 1
    /\ phase = "text"
    /\ tasks = <<>>
    /\ running = 0
    /\ storage = <<>>
    /\ output = <<>>
    /\ sync = <<>>
    /\ last = Step0
    /\ tokens = <<>>
    /\ parsed = Panic("")
    /\ source = <<>>
    /\ lexed = Lexed(<<>>)
    /\ items = <<>>
    /\ input = NewInput

\* one more character of the source
Type(char) ==
    /\ phase = "text"
    /\ Len(source) < MaxChars
    /\ source' = Append(source, char)
    /\ UNCHANGED <<code, phase, tasks, running, storage, output, sync, last, tokens,
                   parsed, lexed, items, input>>

\* tokenize(code): sendhelp throws what tokenize throws
Tokenize ==
    /\ phase = "text"
    /\ lexed' = tokenize(source)
    /\ tokens' = lexed'.tokens
    /\ phase' = IF lexed'.ok THEN "tokens" ELSE "panic"
    /\ UNCHANGED <<code, tasks, running, storage, output, sync, last, parsed, source, items, input>>

NextLex ==
    \/ \E char \in Chars : Type(char)
    \/ Tokenize
    \/ Parse
    \/ Panics
    \/ Start

SpecLex == InitLex /\ [][NextLex]_vars

\* ------------------------------------------------------------------ claims
AllEnded == \A t \in 1..Len(tasks) : tasks[t].pc = "ended"

\* the poll callback would find the counter at zero
PollSeesZero == phase = "running" /\ sync = <<>> /\ ~MicroPending /\ running = 0

\* block is a member or a deeper descendant of group g
Inside(block, g) == Len(block) > Len(g) /\ SubSeq(block, 1, Len(g)) = g

\* the signed magnitudes of the lower- and the higher-weight edge of b
lowerShift(b) == IF b.left[3] < b.right[3] THEN -b.left[2] ELSE b.right[2]
higherShift(b) == IF b.left[3] > b.right[3] THEN -b.left[2] ELSE b.right[2]

\* the process of the last action is where a walk of shift from the block
\* whose borders were read leaves it: on the block reached, or ended when the
\* walk runs off the program
LandedBy(shift) ==
    LET target == getBlockOf(File, last.res.from, shift)
        me == tasks[last.task]
    IN  CASE target = Thrown -> me.pc = "thrown"
          [] target = NoBlock -> me.pc = "ended"
          [] OTHER -> me.pc = "run" /\ me.block = target

\* C1: the run resolves, and the poll can see the counter at zero, only when
\* every process ever started has ended.
C1_DoneOnlyWhenAllEnded == (phase = "done" \/ PollSeesZero) => AllEnded

C1_Witness ==
    /\ phase = "done"
    /\ {tasks[t].kind : t \in 1..Len(tasks)} = {"begin", "child", "fork", "desync"}

\* C2: a fork on equal weights starts its children on the block the left
\* edge's magnitude reaches leftward and on the block the right edge's
\* magnitude reaches rightward, and on no other block.
C2_ForkFollowsBothEdges ==
    last.res.rule = "fork" =>
        LET b == BlockAt(File, last.res.from)
            reached == { getBlockOf(File, last.res.from, -b.left[2]),
                         getBlockOf(File, last.res.from, b.right[2]) } \ {NoBlock, Thrown}
        IN  /\ Len(last.started) = Cardinality(reached)
            /\ {tasks[last.started[k]].block : k \in 1..Len(last.started)} = reached

\* C3: a forking process ends only after both forked children ended, and its
\* map holds, per destination group, its own text, then the text of the child
\* that left leftward, then the text of the child that left rightward.
C3_ForkJoinLeftFirst ==
    /\ \A t \in 1..Len(tasks) :
          tasks[t].kind = "fork" /\ tasks[t].pc # "ended"
              => tasks[tasks[t].parent].pc # "ended"
    /\ last.act = "join" =>
          \A i, j \in 1..Len(last.awaited) :
              /\ last.awaited[i] # 0 /\ last.awaited[j] # 0
              /\ tasks[last.awaited[i]].shift < 0 /\ tasks[last.awaited[j]].shift > 0
              => tasks[last.task].map =
                     mergeInto(last.pre.map, mergeInto(tasks[last.awaited[i]].map,
                                                       tasks[last.awaited[j]].map))

\* C4 as stated: on two outward edges of unequal weight the lower-weight edge
\* is followed exactly when the stream is "true".
C4_LowerWeightIffTrue ==
    last.res.rule = "choose" =>
        LET b == BlockAt(File, last.res.from)
        IN  last.res.shift = IF last.res.stream = TrueText
                             THEN lowerShift(b) ELSE higherShift(b)

\* C4 as amended: on two outward edges of unequal weight, on the cursor or on
\* an ancestor walked up to, the higher-weight edge is followed exactly when
\* the stream is "true"; for every other stream the lower-weight edge is.
C4_HigherWeightIffTrue ==
    last.res.rule = "choose" =>
        LET b == BlockAt(File, last.res.from)
        IN  /\ b.left[3] # b.right[3]
            /\ last.res.shift = IF last.res.stream = TrueText
                                THEN higherShift(b) ELSE lowerShift(b)

C4_Witness ==
    /\ last.res.rule = "choose"
    /\ last.res.stream = TrueText
    /\ last.res.from # last.block

C6_SingleEdgeWalksMagnitude ==
    last.res.rule = "single" =>
        LET b == BlockAt(File, last.res.from)
        IN  LandedBy(IF pointsLeft(b.left) THEN -b.left[2] ELSE b.right[2])

\* a member no send arrow points into from a neighbour
noInboundSend(m) ==
    /\ ~(m.left # NULL /\ m.left[1] = RIGHT_SEND)
    /\ ~(m.right # NULL /\ m.right[1] = LEFT_SEND)

RECURSIVE textsFor(_, _)
textsFor(ids, g) ==
    IF Len(ids) = 0 THEN <<>>
    ELSE mapGet(tasks[ids[1]].map, g) \o textsFor(Tail(ids), g)

\* C7: on a group cursor one child is started on every begin block, in member
\* order and ending at the group; the process stays on the group, awaiting,
\* until all of them ended; then its stream is extended by the children's
\* texts for this group in begin-block order.
C7_GroupStep ==
    /\ last.act = "enter" =>
          LET g == BlockAt(File, last.block)
              want == SelectSeq([k \in 1..Len(g.blocks) |-> k],
                                LAMBDA k : noInboundSend(g.blocks[k]))
          IN  /\ Len(last.started) = Len(want)
              /\ \A k \in 1..Len(want) :
                    LET c == tasks[last.started[k]]
                    IN  /\ c.kind = "child"
                        /\ c.block = Append(last.block, want[k])
                        /\ c.endingBlock = last.block
                        /\ c.pc = "run"
              /\ tasks[last.task].pc = "group"
    /\ \A t \in 1..Len(tasks) :
          tasks[t].kind = "child" /\ tasks[t].pc # "ended"
              => /\ tasks[tasks[t].parent].pc = "group"
                 /\ tasks[tasks[t].parent].block = tasks[t].endingBlock
    /\ last.act = "resume" =>
          last.fx.stream = last.pre.stream \o textsFor(last.awaited, last.block)

C7_Witness ==
    /\ last.act = "resume"
    /\ Len(last.awaited) = 2
    /\ last.fx.stream = <<"a", "b">>

\* C8: a print call leaves the stream and the storage alone; under the
\* top-level group its text goes onto the output and the map is unchanged;
\* under a nested group its text goes onto that group's map entry and the
\* output is unchanged.
C8_PrintFrame ==
    (/\ last.act = "step"
     /\ BlockAt(File, last.block).kind = "Call"
     /\ BlockAt(File, last.block).name = PrintName)
    => LET blk == BlockAt(File, last.block)
           text == join(blk.arguments) \o last.pre.stream
           g == Parent(last.block)
       IN  /\ last.fx.stream = last.pre.stream
           /\ last.fx.storage = last.pre.storage
           /\ storage = last.pre.storage
           /\ output = last.fx.output
           /\ IF Len(last.block) = 1
              THEN /\ last.fx.output = last.pre.output \o text
                   /\ last.fx.map = last.pre.map
              ELSE /\ last.fx.output = last.pre.output
                   /\ mapGet(last.fx.map, g) = mapGet(last.pre.map, g) \o text
                   /\ \A e \in 1..Len(last.fx.map) :
                         last.fx.map[e][1] # g => last.fx.map[e] \in
                             {last.pre.map[d] : d \in 1..Len(last.pre.map)}
                   /\ \A d \in 1..Len(last.pre.map) :
                         mapHas(last.fx.map, last.pre.map[d][1])

C8_Witness ==
    /\ last.act = "step"
    /\ BlockAt(File, last.block).kind = "Call"
    /\ BlockAt(File, last.block).name = PrintName
    /\ Len(last.block) >= 2
    /\ last.pre.stream # <<>>

\* C9 as stated: the cursor of a child of the group step for G is always a
\* member or descendant of G.
C9_ChildStaysInside ==
    \A t \in 1..Len(tasks) :
        tasks[t].kind = "child" => Inside(tasks[t].block, tasks[t].endingBlock)

\* C9 as amended: a child of the group step for G never climbs to G or past
\* it: when its cursor is inside G and has no outward edge, the walk up stops
\* inside G, at an ancestor with an outward edge or, the process ending, at a
\* member of G.  (The cursor leaves G only by the walk of an arrow.)
C9_ChildNeverClimbsToGroup ==
    (/\ last.act \in {"step", "resume"}
     /\ tasks[last.task].kind = "child"
     /\ Inside(last.block, tasks[last.task].endingBlock)
     /\ ~outward(BlockAt(File, last.block)))
    => /\ Inside(last.res.from, tasks[last.task].endingBlock)
       /\ last.res.rule = "none" =>
             /\ tasks[last.task].pc = "ended"
             /\ Parent(last.res.from) = tasks[last.task].endingBlock

C9_Witness ==
    /\ last.act = "step"
    /\ tasks[last.task].kind = "child"
    /\ Inside(last.block, tasks[last.task].endingBlock)
    /\ ~outward(BlockAt(File, last.block))
    /\ outward(BlockAt(File, tasks[last.task].endingBlock))
    /\ tasks[last.task].pc = "ended"

RECURSIVE bordersOK(_)
bordersOK(g) ==
    LET n == Len(g.blocks)
    IN  /\ n > 0 =>
              /\ g.blocks[1].left = NULL \/ g.blocks[1].left[1] = LEFT_JUMP
              /\ g.blocks[n].right = NULL \/ g.blocks[n].right[1] = RIGHT_JUMP
        /\ \A k \in 1..n : g.blocks[k].kind = "BlockBranch" => bordersOK(g.blocks[k])

\* C10: in every group parse accepts, the first member's left border is
\* absent or a left-pointing jump and the last member's right border is
\* absent or a right-pointing jump.
C10_BordersAreOutwardJumps ==
    phase # "tokens" /\ parsed.ok => bordersOK(parsed.tree)

RECURSIVE sharedBorders(_)
sharedBorders(g) ==
    /\ \A k \in 1..(Len(g.blocks) - 1) :
          /\ g.blocks[k].right # NULL
          /\ g.blocks[k + 1].left = g.blocks[k].right
    /\ \A k \in 1..Len(g.blocks) :
          g.blocks[k].kind = "BlockBranch" => sharedBorders(g.blocks[k])

\* C11: in every group parse accepts, two adjacent members are separated by
\* an arrow, and the right member's left border is the very same arrow object
\* as the left member's right border.
C11_AdjacentShareOneArrow ==
    phase # "tokens" /\ parsed.ok => sharedBorders(parsed.tree)

C11_Witness ==
    /\ phase # "tokens"
    /\ parsed.ok
    /\ Len(parsed.tree.blocks) >= 2
    /\ parsed.tree.blocks[1].kind = "BlockBranch"

\* an arrow before the first or after the last top-level member: the token
\* sequence begins or ends with an arrow
borderArrow(toks) ==
    Len(toks) > 0 /\ (toks[1][1] = TokArrow \/ toks[Len(toks)][1] = TokArrow)

\* C12: a program with an arrow before its first or after its last top-level
\* member is rejected before any process is started, whatever the arrow.
C12_TopLevelBorderArrowRejected ==
    borderArrow(tokens) /\ phase \notin {"tokens", "load"}
        => phase = "panic" /\ tasks = <<>> /\ running = 0 /\ output = <<>>

C12_Witness ==
    /\ phase = "panic"
    /\ parsed.ok
    /\ tokens[1] = Arrow(<<"<", "<">>)
    /\ Len(parsed.tree.blocks) > 0

RECURSIVE beginsQualify(_)
beginsQualify(g) ==
    /\ beginBlockIndex(g) = SelectSeq([k \in 1..Len(g.blocks) |-> k],
                                      LAMBDA k : noInboundSend(g.blocks[k]))
    /\ \A k \in 1..Len(g.blocks) :
          g.blocks[k].kind = "BlockBranch" => beginsQualify(g.blocks[k])

\* C20: the begin blocks of a group are exactly its members no send arrow
\* points into from a neighbour (left border not a right-pointing send, right
\* border not a left-pointing send), and the driver starts exactly one
\* process on each such member of the top-level group and on no other block.
C20_BeginBlocks ==
    /\ phase # "tokens" /\ parsed.ok => beginsQualify(parsed.tree)
    /\ last.act = "start" =>
          /\ \A k \in 1..Len(File.blocks) :
                Cardinality({t \in 1..Len(tasks) : tasks[t].block = <<k>>})
                    = IF noInboundSend(File.blocks[k]) THEN 1 ELSE 0
          /\ \A t \in 1..Len(tasks) :
                Len(tasks[t].block) = 1 /\ tasks[t].block[1] \in 1..Len(File.blocks)
          /\ running = Len(tasks)

C20_Witness ==
    /\ last.act = "start"
    /\ \E k \in 1..Len(File.blocks) : ~noInboundSend(File.blocks[k])
    /\ \E t \in 1..Len(tasks) :
          LET m == BlockAt(File, tasks[t].block)
          IN  m.left # NULL /\ m.left[1] = LEFT_SEND
    /\ \E t \in 1..Len(tasks) :
          LET m == BlockAt(File, tasks[t].block)
          IN  m.left # NULL /\ m.left[1] = RIGHT_JUMP

\* where a scan of the text for quoted segments stands after character i - 1:
\* "out", "in" a quoted segment, or "esc" right after a backslash inside one
RECURSIVE quoteState(_, _, _)
quoteState(string, i, q) ==
    IF i > Len(string) THEN q
    ELSE quoteState(string, i + 1,
                    CASE q = "out" -> IF string[i] = "\"" THEN "in" ELSE "out"
                      [] q = "in" -> IF string[i] = "\"" THEN "out"
                                     ELSE IF string[i] = "\\" THEN "esc" ELSE "in"
                      [] OTHER -> "in")

endsInsideQuote(string) == quoteState(string, 1, "out") # "out"

\* C13: tokenize fails, with "Unterminated string", exactly when the text
\* ends inside a quoted segment (right after a backslash inside one
\* included); it never throws "Not implemented."; when it fails no process
\* is started and there is no output.
C13_UnterminatedString ==
    phase # "text" =>
        /\ lexed.ok <=> ~endsInsideQuote(source)
        /\ ~lexed.ok => (/\ lexed.error = "Unterminated string"
                         /\ phase = "panic"
                         /\ tasks = <<>>
                         /\ running = 0
                         /\ output = <<>>)

C13_Witness ==
    /\ phase = "panic"
    /\ ~lexed.ok
    /\ Len(source) >= 3
    /\ source[Len(source)] = "\\"
    /\ quoteState(source, 1, "out") = "esc"

\* the words of a text: its maximal runs of characters other than whitespace
RECURSIVE wordsFrom(_, _, _)
wordsFrom(string, i, word) ==
    IF i > Len(string) THEN (IF word = <<>> THEN <<>> ELSE <<word>>)
    ELSE IF isWhitespace(string[i])
    THEN (IF word = <<>> THEN <<>> ELSE <<word>>) \o wordsFrom(string, i + 1, <<>>)
    ELSE wordsFrom(string, i + 1, Append(word, string[i]))

\* one or more '<' then dashes, or dashes then one or more '>'
wellFormedRun(word) ==
    \/ \E h \in 1..Len(word) :
          \A i \in 1..Len(word) : word[i] = (IF i <= h THEN "<" ELSE "-")
    \/ \E d \in 0..(Len(word) - 1) :
          \A i \in 1..Len(word) : word[i] = (IF i <= d THEN "-" ELSE ">")

\* C14: every maximal run of the glyphs '<', '-', '>' between whitespace or
\* the ends of the text comes out as one token with the whole run as its
\* text: an Arrow when the run is well formed, an Identifier otherwise.
C14_GlyphRunIsOneToken ==
    (/\ phase # "text"
     /\ \A i \in 1..Len(source) : source[i] \in Glyphs \/ isWhitespace(source[i]))
    => LET words == wordsFrom(source, 1, <<>>)
       IN  /\ lexed.ok
           /\ lexed.tokens = [k \in 1..Len(words) |->
                                <<IF wellFormedRun(words[k]) THEN TokArrow ELSE TokInstance,
                                  words[k]>>]

\* the glyphs of an arrow descriptor
printArrow(toLeft, magnitude, weight) ==
    IF toLeft
    THEN [i \in 1..magnitude |-> "<"] \o [i \in 1..weight |-> "-"]
    ELSE [i \in 1..weight |-> "-"] \o [i \in 1..magnitude |-> ">"]

\* C15: the glyphs of a descriptor (direction, magnitude >= 1, weight >= 0)
\* tokenize to exactly one Arrow token, which decodes to the same direction,
\* magnitude and weight, with mode send exactly when the magnitude is 1.
C15_ArrowRoundTrip ==
    phase # "text" =>
        \A toLeft \in BOOLEAN, magnitude \in 1..MaxChars, weight \in 0..MaxChars :
            source = printArrow(toLeft, magnitude, weight) =>
                /\ lexed.ok
                /\ Len(lexed.tokens) = 1
                /\ lexed.tokens[1][1] = TokArrow
                /\ LET arrow == parseArrow(lexed.tokens[1])
                   IN  /\ arrow[1] % 2 = (IF toLeft THEN 0 ELSE 1)
                       /\ arrow[2] = magnitude
                       /\ arrow[3] = weight
                       /\ arrow[1] \in {LEFT_SEND, RIGHT_SEND} <=> magnitude = 1
                       /\ arrow[1] \in {LEFT_JUMP, RIGHT_JUMP} <=> magnitude > 1

C15_Witness ==
    /\ phase # "text"
    /\ source = <<"-", "-", ">", ">">>
    /\ lexed.ok
    /\ Len(lexed.tokens) = 1
    /\ parseArrow(lexed.tokens[1]) = <<RIGHT_JUMP, 2, 2>>

\* the last action was an iteration on a call of the name
CallDone(name) ==
    /\ last.act = "step"
    /\ BlockAt(File, last.block).kind = "Call"
    /\ BlockAt(File, last.block).name = name

\* C16: a loop call without arguments on stream v, followed immediately by a
\* pop call, leaves v in the stream and the storage as it was before the loop.
C16_LoopPopRoundTrip ==
    (/\ CallDone(PopName)
     /\ last.prev.act = "step"
     /\ BlockAt(File, last.prev.block).kind = "Call"
     /\ BlockAt(File, last.prev.block).name = LoopName
     /\ BlockAt(File, last.prev.block).arguments = <<>>)
    => /\ last.fx.stream = last.prev.pre.stream
       /\ last.fx.storage = last.prev.pre.storage

\* C17: done sets the stream to "true" exactly when every pushed item has
\* been popped, and to "false" otherwise.
C17_DoneIffAllPopped ==
    CallDone(DoneName) => last.fx.stream = BoolText(last.items = <<>>)

\* the storage that holds the pushed items
RECURSIVE stored(_)
stored(stack) == IF Len(stack) = 0 THEN <<>> ELSE <<NL>> \o stack[1] \o stored(Tail(stack))

\* C18: under every interleaving, a pop returns the most recently pushed item
\* not yet popped (the empty text when there is none) and removes it alone,
\* and the storage holds exactly the items pushed and not yet popped.
C18_LoopPopAtomic ==
    /\ CallDone(PopName) =>
          last.fx.stream = IF last.items = <<>> THEN <<>>
                           ELSE last.items[Len(last.items)]
    /\ storage = stored(items)

\* C19: at most one question is outstanding on the line reader at any time.
C19_OneQuestionAtATime ==
    Cardinality({k \in 1..Len(input.asked) : input.asked[k].rl = input.rl}) <= 1

\* a group nested in g, at any depth, has no member
RECURSIVE hasEmptyGroup(_)
hasEmptyGroup(g) ==
    \E k \in 1..Len(g.blocks) :
        /\ g.blocks[k].kind = "BlockBranch"
        /\ Len(g.blocks[k].blocks) = 0 \/ hasEmptyGroup(g.blocks[k])

\* C22: every group nested in a tree parse returned has at least one member
\* (a brace pair whose content yields no member block is rejected).
C22_NestedGroupsNonEmpty ==
    phase # "tokens" /\ parsed.ok => ~hasEmptyGroup(parsed.tree)

\* every group of the tree under g, g included, that has a member has a
\* begin block
RECURSIVE groupsHaveBegin(_)
groupsHaveBegin(g) ==
    /\ Len(g.blocks) > 0 => Len(beginBlockIndex(g)) > 0
    /\ \A k \in 1..Len(g.blocks) :
          g.blocks[k].kind = "BlockBranch" => groupsHaveBegin(g.blocks[k])

\* C25: every group with at least one member in a tree parse returned has at
\* least one begin block.
C25_NonEmptyGroupHasBegin ==
    phase # "tokens" /\ parsed.ok => groupsHaveBegin(parsed.tree)

\* no arrow of the program points left, and no token of it is the name input
rightOnly(toks) ==
    \A i \in 1..Len(toks) :
        /\ toks[i][1] = TokArrow => CountOf(toks[i][2], {"<"}) = 0
        /\ toks[i] # Ident(InputName)

\* sendhelp() resolved: every process returned and the counter is back at zero
Completed == phase = "done" /\ AllEnded /\ running = 0

\* C23: a program parse and the driver accept, with no left-pointing arrow
\* and no call of input, runs to completion: every process ends, the counter
\* returns to zero and sendhelp() resolves.
C23_Terminates ==
    (phase = "load" /\ parsed.ok /\ ~topLevelArrows(parsed.tree) /\ rightOnly(tokens))
        ~> Completed

\* the members of the tree under b (at path at) that are not groups, in the
\* order of the text
RECURSIVE leavesOf(_, _)
leavesOf(b, at) ==
    IF b.kind # "BlockBranch" THEN <<at>>
    ELSE LET RECURSIVE from(_)
             from(k) == IF k > Len(b.blocks) THEN <<>>
                        ELSE leavesOf(b.blocks[k], Append(at, k)) \o from(k + 1)
         IN  from(1)

\* path p is path q or the path of an ancestor of q
isPrefix(p, q) == Len(p) <= Len(q) /\ SubSeq(q, 1, Len(p)) = p

\* p stands before q in the text, for two paths neither of which is inside
\* the other
before(p, q) ==
    \E i \in 1..Len(p) :
        /\ i <= Len(q)
        /\ SubSeq(p, 1, i - 1) = SubSeq(q, 1, i - 1)
        /\ p[i] < q[i]

\* the one-step landing: the sibling next to the nearest block, from the
\* target up, that is not at the edge of its group on the side dir
siblingOf(tree, target, dir) ==
    LET atEdge(l) ==
            target[l] = (IF dir > 0
                         THEN Len(BlockAt(tree, SubSeq(target, 1, l - 1)).blocks)
                         ELSE 1)
        free == {l \in 1..Len(target) : ~atEdge(l)}
    IN  IF free = {} THEN NoBlock
        ELSE LET l == CHOOSE x \in free : \A y \in free : y <= x
             IN  Append(SubSeq(target, 1, l - 1), target[l] + dir)

\* the landing of n >= 2 steps: the n-th leaf after the target (before it,
\* leftward) in the order of the text, not counting the leaves inside it
nthLeaf(tree, target, shift) ==
    LET all == leavesOf(tree, Root)
        outside(l) == ~isPrefix(target, l)
        after == SelectSeq(all, LAMBDA l : outside(l) /\ before(target, l))
        ahead == SelectSeq(all, LAMBDA l : outside(l) /\ before(l, target))
        n == Abs(shift)
    IN  IF shift > 0
        THEN IF Len(after) >= n THEN after[n] ELSE NoBlock
        ELSE IF Len(ahead) >= n THEN ahead[Len(ahead) - n + 1] ELSE NoBlock

\* C24: getBlockOf returns a block or no block.  A walk of one step returns
\* the sibling next to the target after the climb out of every group whose
\* edge it is at, a group included, and no block when there is none.  A walk
\* of two or more steps never returns a group; it returns the leaf that many
\* leaves away in the direction walked, and no block when the leaves run out.
C24_LandingRule ==
    last.act = "walk" /\ last.res.from # Root =>
        LET target == last.res.from
            shift == last.res.shift
            block == last.res.block
        IN  /\ block # Thrown
            /\ Abs(shift) = 1 =>
                  block = siblingOf(File, target, shift)
            /\ Abs(shift) >= 2 =>
                  /\ block = NoBlock \/ BlockAt(File, block).kind # "BlockBranch"
                  /\ ~hasEmptyGroup(File) => block = nthLeaf(File, target, shift)

\* the texts of a token sequence
textsOf(toks) == [k \in 1..Len(toks) |-> toks[k][2]]

\* strictly left to right on an empty stream: a string token appends its text
\* to the stream, a name applies the effect of that call without arguments
RECURSIVE inSequence(_, _)
inSequence(toks, fx) ==
    IF Len(toks) = 0 THEN fx
    ELSE inSequence(Tail(toks),
                    IF toks[1][1] = TokString
                    THEN [fx EXCEPT !.stream = @ \o toks[1][2]]
                    ELSE blockEffect(NewCall(toks[1][2]), <<1>>, fx))

\* at most one process exists and none was started by another
OneProcess ==
    /\ Len(tasks) <= 1
    /\ last.act \in {"step", "start"} => Len(last.started) <= 1
    /\ last.act = "step" => last.res.rule = "none"

\* C21 as stated: a program without arrows and braces runs as one process,
\* and its output is that of its strings and calls taken strictly left to
\* right on an empty stream.
C21_SequentialOutput ==
    /\ OneProcess
    /\ phase = "done" =>
          output = inSequence(tokens, [stream |-> <<>>, map |-> NewMap,
                                       output |-> <<>>, storage |-> <<>>]).output

\* C21 as amended: a program without arrows and braces is one block, made from
\* its first token, with every later token merged into it; it runs as one
\* process, and its output is empty unless the first token is the name
\* print, when it is the other tokens' texts joined by newlines.
C21_OneMergedBlock ==
    /\ OneProcess
    /\ phase # "tokens" => Len(File.blocks) = IF tokens = <<>> THEN 0 ELSE 1
    /\ phase = "done" =>
          output = IF tokens # <<>> /\ tokens[1] = Ident(PrintName)
                   THEN join(textsOf(Tail(tokens)))
                   ELSE <<>>

C21_Witness ==
    /\ phase = "done"
    /\ tokens = << Str(<<"a">>), Ident(PrintName) >>
    /\ Len(tasks) = 1
    /\ output = <<>>

====
